---- MODULE Spec2Model ----
(***************************************************************************)
(* Model of the image optimizer (images_optimizer/multiple_images_         *)
(* optimizer.py, with optimizer.py sharing optimize_to_target_size).       *)
(*                                                                         *)
(* One job (optimize_image on one input file) is modelled step by step:    *)
(* the skip check, the opening of the image, and for each requested format *)
(* one run of optimize_to_target_size, split at its encodes (save +        *)
(* getsize).  The encoder is the environment: every encode returns any     *)
(* size of Sizes or raises.  Sizes are in KB.                              *)
(***************************************************************************)
EXTENDS Integers, Sequences, FiniteSets, TLC

\* ---- module-level configuration of the program ----
TARGET_MIN_SIZE_KB == 30
TARGET_MAX_SIZE_KB == 90
MAX_SIZE_KB == 100
INITIAL_QUALITY == 80
MIN_QUALITY == 30
\* RESIZE_FACTOR = 0.8, kept as the fraction RESIZE_NUM / RESIZE_DEN
RESIZE_NUM == 8
RESIZE_DEN == 10
max_resize_attempts == 5
\* literals of the code
LARGE_FILE_KB == 500
QUALITY_CAP == 98
QUALITY_STEP_UP == 5

\* ---- inputs of the model ----
\* sizes (KB) an encode can produce: below the target minimum, on it, on the
\* ceiling, just above it, on twice the ceiling, above twice the ceiling
Sizes == {29, 30, 100, 101, 200, 201}
\* sizes (KB) of the source file, around the large-file threshold
OrigSizes == {500, 501}
\* dimensions <<width, height>> of the source image
ImageDims == {<<1000, 800>>, <<4, 3>>}
\* colour modes of the source image: opaque, and two modes with an alpha band
Modes == {"RGB", "RGBA", "LA"}
\* the source images a job is given: a large opaque one, a tiny one with alpha
SourceImages == {[size |-> <<1000, 800>>, mode |-> "RGB"],
                 [size |-> <<4, 3>>, mode |-> "RGBA"]}
\* values the user can type for the format selection (4: not a valid choice)
FormatDecisions == {1, 2, 3, 4}
Formats == {"WEBP", "AVIF"}

\* value of a local that is not bound (no optimizer call is active)
Unset == 0 - 1
NoSavingsYet == <<0, 0>>
NoResult == [size |-> Unset, quality |-> Unset, resized |-> FALSE,
             savings |-> NoSavingsYet]

Max(a, b) == IF a >= b THEN a ELSE b
Min(a, b) == IF a <= b THEN a ELSE b

\* ---- configuration and inputs of the batch ----
MAX_WORKERS == 4
\* the image files <<stem, extension>> the input folder can hold
FolderFiles == {<<"a", "jpg">>, <<"a", "png">>, <<"b", "jpg">>}
\* most files in the folder, and most runs of the program over it
MaxFiles == 2
MaxRuns == 2
\* values given to --workers
WorkerArgs == {1, 8}
\* savings percentage of each image in each format (the encoder gives one size
\* per image, format and quality); an output larger than its source has
\* negative savings
SavingsFor(file, f) ==
    CASE file = <<"a", "jpg">> -> (IF f = "WEBP" THEN 10 ELSE 40)
      [] file = <<"a", "png">> -> (IF f = "WEBP" THEN 70 ELSE 85)
      [] OTHER -> (IF f = "WEBP" THEN 0 - 20 ELSE 25)
\* everything the input folder can hold when discovery is looked at: image
\* files with extensions in lower, upper and mixed case, another file, and an
\* image inside a subdirectory
FolderEntries == {<<"a", "jpg">>, <<"a", "JPG">>, <<"b", "Jpg">>,
                  <<"b", "jpeg">>, <<"c", "PNG">>, <<"c", "txt">>,
                  <<"sub/d", "png">>}
\* the entries that lie in a subdirectory of the folder
Nested == {<<"sub/d", "png">>}
\* most entries in the folder when discovery is looked at
MaxEntries == 3
\* the extensions of the glob patterns, in the order the loop tries them:
\* each of supported_formats as written, then in upper case
GlobExts == <<"jpg", "JPG", "jpeg", "JPEG", "png", "PNG">>
\* position of an extension in the order of the glob patterns
ExtRank(ext) ==
    IF \E k \in DOMAIN GlobExts : GlobExts[k] = ext
    THEN CHOOSE k \in DOMAIN GlobExts : GlobExts[k] = ext
    ELSE Len(GlobExts) + 1
\* str.lower() on the extensions
Lower(ext) ==
    CASE ext \in {"jpg", "JPG", "Jpg"} -> "jpg"
      [] ext \in {"jpeg", "JPEG"} -> "jpeg"
      [] ext \in {"png", "PNG"} -> "png"
      [] OTHER -> ext

\* str.upper() on the format names the program uses
Upper(s) ==
    CASE s = "webp" -> "WEBP"
      [] s = "avif" -> "AVIF"
      [] s = "jpeg" -> "JPEG"
      [] OTHER -> s

\* ---- pure functions of the code ----
\* variant: the large-file tests written with >=
get_initial_quality_ge(format_name, original_size_kb) ==
    IF Upper(format_name) = "AVIF"
    THEN IF original_size_kb >= LARGE_FILE_KB
         THEN Max(MIN_QUALITY, INITIAL_QUALITY - 20)
         ELSE Max(MIN_QUALITY, INITIAL_QUALITY - 15)
    ELSE IF original_size_kb >= LARGE_FILE_KB
         THEN Max(MIN_QUALITY, INITIAL_QUALITY - 10)
         ELSE INITIAL_QUALITY

\* variant: the large-file adjustment of the lighter formats left out
get_initial_quality_flat(format_name, original_size_kb) ==
    IF Upper(format_name) = "AVIF"
    THEN IF original_size_kb > LARGE_FILE_KB
         THEN Max(MIN_QUALITY, INITIAL_QUALITY - 20)
         ELSE Max(MIN_QUALITY, INITIAL_QUALITY - 15)
    ELSE INITIAL_QUALITY

get_initial_quality(format_name, original_size_kb) ==
    IF Upper(format_name) = "AVIF"
    THEN IF original_size_kb > LARGE_FILE_KB
         THEN Max(MIN_QUALITY, INITIAL_QUALITY - 20)
         ELSE Max(MIN_QUALITY, INITIAL_QUALITY - 15)
    ELSE IF original_size_kb > LARGE_FILE_KB
         THEN Max(MIN_QUALITY, INITIAL_QUALITY - 10)
         ELSE INITIAL_QUALITY

\* optimizer.py, optimize_image: initial_quality = INITIAL_QUALITY, lowered by
\* 10 for a source above 500 KB; the same value is passed for WEBP and AVIF
single_initial_quality(format_name, original_size_kb) ==
    IF original_size_kb > LARGE_FILE_KB
    THEN Max(MIN_QUALITY, INITIAL_QUALITY - 10)
    ELSE INITIAL_QUALITY

\* the initial quality a job passes to the optimizer call of a format
SeedQuality(program, format_name, original_size_kb) ==
    IF program = "single"
    THEN single_initial_quality(format_name, original_size_kb)
    ELSE get_initial_quality(format_name, original_size_kb)

\* the formats one job encodes, in the order the code runs them
RequestedFormats(decision) ==
    CASE decision = 1 -> <<"WEBP">>
      [] decision = 2 -> <<"AVIF">>
      [] decision = 3 -> <<"WEBP", "AVIF">>
      [] OTHER -> <<>>

\* the format get_optimal_workers is asked about
PoolFormat(decision) == IF decision = 2 THEN "AVIF" ELSE "WEBP"

get_optimal_workers(format_name) ==
    IF Upper(format_name) = "AVIF"
    THEN Max(1, Min(2, MAX_WORKERS \div 2))
    ELSE MAX_WORKERS

\* ThreadPoolExecutor(max_workers=optimal_workers): the max_workers argument of
\* process_batch is not read
PoolSize(decision, workers_argument) ==
    get_optimal_workers(PoolFormat(decision))

\* the mode has an alpha band
HasAlpha(mode) == mode \in {"RGBA", "LA"}

\* the format can store an alpha band
SupportsAlpha(format) == Upper(format) # "JPEG"

\* variant: the working copy is made at a reduced size
Copy_reduced(dims) == <<(dims[1] * RESIZE_NUM) \div RESIZE_DEN,
                        (dims[2] * RESIZE_NUM) \div RESIZE_DEN>>

\* img.copy(): the working copy has the dimensions of the caller's image
Copy(dims) == dims

\* current_img = img.copy()
\* if format_name.upper() == "JPEG" and current_img.mode == "RGBA": convert("RGB")
WorkingMode(format, mode) ==
    IF Upper(format) = "JPEG" /\ mode = "RGBA" THEN "RGB" ELSE mode

\* save() of the imaging library: the JPEG writer refuses a mode with an alpha
\* band ("cannot write mode LA as JPEG"), the WEBP and AVIF writers take any
EncoderAccepts(format, mode) == SupportsAlpha(format) \/ ~HasAlpha(mode)

\* variant: the share of the source that is left, not the share that is saved
Savings_left(original_kb, final_kb) == <<final_kb * 100, original_kb>>

\* ((original_size - size) / original_size) * 100, kept as the fraction
\* <<numerator, denominator>>
Savings(original_kb, final_kb) == <<(original_kb - final_kb) * 100, original_kb>>

\* output_dir / f"{stem}.{format_name.lower()}": an output file is named by
\* the stem of its input and its format, the extension of the input is dropped
get_output_path(input_path, format) == <<input_path[1], Upper(format)>>

\* folder_path.glob("*.jpg"), glob("*.JPG"), ...: the entries directly in the
\* folder whose extension is one of the patterns', letter for letter
Discovered(entries) ==
    {e \in entries : /\ e \notin Nested
                     /\ \E k \in DOMAIN GlobExts : e[2] = GlobExts[k]}

\* variant: the bar advances for every format of a job
PbarUpdate_per_format(n) == n + 2

\* pbar.update(1)
PbarUpdate(n) == n + 1

\* if webp_path.exists() and avif_path.exists()
AlreadyOptimized(webp_there, avif_there) ==
    webp_there /\ avif_there

\* while current_size > MAX_SIZE_KB
OverBudget(size) == size > MAX_SIZE_KB

\* variant: the branch taken only while a full step of 10 is left
CanReduceQuality_early(q) == q - 10 > MIN_QUALITY

\* if quality > MIN_QUALITY
CanReduceQuality(q) == q > MIN_QUALITY

\* variant: the clamp to MIN_QUALITY left out
ReducedQuality_noclamp(q, size) ==
    q - (IF size > 2 * MAX_SIZE_KB THEN 10 ELSE 5)

\* variant: the larger step taken from twice the ceiling on
ReducedQuality_at_double(q, size) ==
    Max(MIN_QUALITY, q - (IF size >= 2 * MAX_SIZE_KB THEN 10 ELSE 5))

\* variant: the quality is left where it is
ReducedQuality_stuck(q, size) == q

\* reduction = 10 if current_size > 2 * MAX_SIZE_KB else 5
\* quality = max(MIN_QUALITY, quality - reduction)
ReducedQuality(q, size) ==
    Max(MIN_QUALITY, q - (IF size > 2 * MAX_SIZE_KB THEN 10 ELSE 5))

\* variant: > in place of >=
ResizeExhausted_offbyone(count) == count > max_resize_attempts

\* if resize_count >= max_resize_attempts: break
ResizeExhausted(count) == count >= max_resize_attempts

\* variant: rounding to the nearest pixel
Scaled_rounded(d) == (d * RESIZE_NUM + RESIZE_DEN \div 2) \div RESIZE_DEN

\* int(old * RESIZE_FACTOR)
Scaled(d) == (d * RESIZE_NUM) \div RESIZE_DEN

\* variant: the quality goes back to the module's baseline
QualityAfterResize_baseline(q, initial) == INITIAL_QUALITY

\* quality = initial_quality   (after a resize)
QualityAfterResize(q, initial) == initial

\* variant: the test of resize_needed left out
ShouldRaise_anyway(size, resized) == size < TARGET_MIN_SIZE_KB

\* if current_size < TARGET_MIN_SIZE_KB and not resize_needed
ShouldRaise(size, resized) == size < TARGET_MIN_SIZE_KB /\ ~resized

\* while current_size < TARGET_MIN_SIZE_KB and quality < 98
RaiseLoopCond(size, q) == size < TARGET_MIN_SIZE_KB /\ q < QUALITY_CAP

\* quality += 5; if quality > 98: quality = 98
RaisedQuality(q) ==
    IF q + QUALITY_STEP_UP > QUALITY_CAP THEN QUALITY_CAP ELSE q + QUALITY_STEP_UP

\* variant: the revert takes two steps back
RevertedQuality_double(q) == q - 2 * QUALITY_STEP_UP

\* quality -= 5   (the revert after an overshoot)
RevertedQuality(q) == q - QUALITY_STEP_UP

\* ---- state ----
VARIABLES
    format_decision,  \* module global read from the user at start
    dir_exists,       \* the output directory exists
    files,            \* formats whose output file of this stem exists
    corrupt,          \* the source file cannot be decoded
    original_size,    \* size of the source file, KB
    img_dims,         \* <<width, height>> of the caller's image
    img_mode,         \* colour mode of the caller's image
    deterministic,    \* the encoder gives one size per working copy and quality
    variant,          \* which program the job belongs to: "batch" or "single"
    pc,               \* position of the job
    status,           \* "running", then the status of the returned dict
    todo,             \* formats the job still has to optimize
    results,          \* per format, what optimize_to_target_size returned
    opened,           \* Image.open was called
    encoder_used,     \* some save (encode) was called
    format_name,      \* locals of the active optimize_to_target_size call
    initial_quality,
    quality,
    resize_needed,
    resize_count,
    current_size,
    new_size,
    current_img,
    current_mode,     \* colour mode of the working copy
    enc_quality,      \* quality passed to the last save call
    enc_size,         \* size measured after the last save call
    measured,         \* with such an encoder: <<quality, size>> of the encodes of the working copy as it is now
    prev_quality,     \* quality in force before the last quality += 5
    seed_below,       \* the first save of the call measured less than TARGET_MIN_SIZE_KB
    warned,           \* formats for which the give-up warning was logged
    repeatable,       \* no re-encode of the same image at the same quality gave another size
    raised,           \* exception caught at the job boundary, "none" if none
    \* -- the batch --
    folder,           \* image files in the input folder
    out_files,        \* output files <<stem, format>> in the output folder
    workers_arg,      \* args.workers
    main_pc,          \* position of main
    run,              \* which run of the program over the folder this is
    image_files,      \* what find_images_in_folder returned
    optimal_workers,  \* size of the thread pool
    job_pc,           \* per submitted file, the position of its job
    job_todo,         \* per job, the formats still to optimize
    job_result,       \* per job, the dict optimize_image returns
    successful,       \* results["successful"]
    skipped,          \* results["skipped"]
    failed,           \* results["failed"]
    details,          \* results["details"], as indexes of image_files
    total_savings,    \* results["total_savings"]
    average_savings,  \* results["average_savings"], as <<numerator, denominator>>
    pbar,             \* count shown by the progress bar
    exit_code,        \* what main returned
    report_written,   \* the report file was written
    pre_files,        \* out_files when process_batch started
    encodes,          \* optimizer calls of this run
    opens,            \* Image.open calls of this run
    prev_clean        \* the run before this one ended with every job a success

batch == <<folder, out_files, workers_arg, main_pc, run, image_files,
           optimal_workers, job_pc, job_todo, job_result, successful, skipped,
           failed, details, total_savings, average_savings, pbar, exit_code,
           report_written, pre_files, encodes, opens, prev_clean>>
\* what no step of a job changes
config == <<format_decision, corrupt, original_size, img_dims, img_mode,
            deterministic, variant, batch>>
locals == <<format_name, initial_quality, quality, resize_needed, resize_count,
            current_size, new_size, current_img, current_mode>>
history == <<enc_quality, enc_size, measured, prev_quality, seed_below>>
vars == <<format_decision, dir_exists, files, corrupt, original_size, img_dims,
          img_mode, deterministic, variant, pc, status, todo, results, opened, encoder_used, format_name,
          initial_quality, quality, resize_needed, resize_count, current_size,
          new_size, current_img, current_mode, enc_quality, enc_size,
          measured, prev_quality, seed_below, warned, repeatable, raised, batch>>

\* the locals of optimize_to_target_size when no call is active
NoLocals ==
    /\ format_name' = "none"
    /\ initial_quality' = Unset
    /\ quality' = Unset
    /\ resize_needed' = FALSE
    /\ resize_count' = 0
    /\ current_size' = Unset
    /\ new_size' = Unset
    /\ current_img' = <<0, 0>>
    /\ current_mode' = "none"
    /\ enc_quality' = Unset
    /\ enc_size' = Unset
    /\ measured' = {}
    /\ prev_quality' = Unset
    /\ seed_below' = FALSE

NoAverage == [f \in Formats |-> <<0, 1>>]
NoSavings == [f \in Formats |-> 0]

\* the results dict process_batch starts from, and the rest of a run's state
FreshRun ==
    /\ image_files = <<>>
    /\ optimal_workers = 0
    /\ job_pc = <<>>
    /\ job_todo = <<>>
    /\ job_result = <<>>
    /\ successful = 0
    /\ skipped = 0
    /\ failed = 0
    /\ details = <<>>
    /\ total_savings = NoSavings
    /\ average_savings = NoAverage
    /\ pbar = 0
    /\ exit_code = Unset
    /\ report_written = FALSE
    /\ pre_files = {}
    /\ encodes = 0
    /\ opens = 0

\* the batch while a single job is looked at on its own
NoBatch ==
    /\ folder = {}
    /\ out_files = {}
    /\ workers_arg = MAX_WORKERS
    /\ main_pc = "none"
    /\ run = 0
    /\ prev_clean = FALSE
    /\ FreshRun

Init ==
    /\ NoBatch
    /\ format_decision \in FormatDecisions
    /\ dir_exists \in BOOLEAN
    /\ files \in SUBSET Formats
    /\ (files # {} => dir_exists)
    /\ corrupt \in BOOLEAN
    /\ original_size \in OrigSizes
    /\ \E im \in SourceImages : img_dims = im.size /\ img_mode = im.mode
    /\ deterministic = FALSE
    /\ variant = "batch"
    /\ pc = "start"
    /\ status = "running"
    /\ todo = <<>>
    /\ results = [f \in Formats |-> NoResult]
    /\ opened = FALSE
    /\ encoder_used = FALSE
    /\ format_name = "none"
    /\ initial_quality = Unset
    /\ quality = Unset
    /\ resize_needed = FALSE
    /\ resize_count = 0
    /\ current_size = Unset
    /\ new_size = Unset
    /\ current_img = <<0, 0>>
    /\ current_mode = "none"
    /\ enc_quality = Unset
    /\ enc_size = Unset
    /\ measured = {}
    /\ prev_quality = Unset
    /\ seed_below = FALSE
    /\ warned = {}
    /\ repeatable = TRUE
    /\ raised = "none"

\* ---- the encoder and the job boundary ----
\* current_img.save(output_path, format, quality=q) followed by getsize: the file
\* of the active format is written
Saved(q) ==
    /\ encoder_used' = TRUE
    /\ enc_quality' = q
    /\ files' = files \cup {format_name}

\* variant: the results obtained before the exception are kept
Caught_keeps(kind) ==
    /\ status' = "error"
    /\ raised' = kind
    /\ pc' = "done"
    /\ todo' = <<>>
    /\ results' = results
    /\ NoLocals

\* except Exception as e: return {"status": "error", ...}; the locals of the
\* call and the results obtained so far are gone
Caught(kind) ==
    /\ status' = "error"
    /\ raised' = kind
    /\ pc' = "done"
    /\ todo' = <<>>
    /\ results' = [f \in Formats |-> NoResult]
    /\ NoLocals

\* the sizes a save of the working copy at quality q can be measured at: any
\* size, but the size measured before if the encoder is deterministic and
\* this working copy was already encoded at q
Answers(q) ==
    IF deterministic /\ \E m \in measured : m[1] = q
    THEN {m[2] : m \in {x \in measured : x[1] = q}}
    ELSE Sizes

\* os.path.getsize after a save of the working copy at quality q.  Once the
\* copy was resized nothing is kept: the quality only goes down until the next
\* resize and the upward phase is not entered, so no quality is encoded twice
\* on the same working copy
Measure(q, s) ==
    /\ enc_size' = s
    /\ measured' = IF deterministic /\ ~resize_needed
                   THEN measured \cup {<<q, s>>}
                   ELSE measured

\* the same after the first save of the call, on the copy of the caller's image
MeasureFirst(q, s) ==
    /\ enc_size' = s
    /\ measured' = IF deterministic THEN {<<q, s>>} ELSE measured

\* the same after the save that follows a resize
MeasureResized(q, s) ==
    /\ enc_size' = s
    /\ measured' = {}

\* a save that raises: the file is left behind or removed, depending on
\* whether save created it and on the imaging library
SaveRaises ==
    /\ encoder_used' = TRUE
    /\ files' \in {files, files \cup {format_name}}
    /\ Caught("codec")
    /\ UNCHANGED <<config, dir_exists, opened, warned, repeatable>>

\* ---- optimize_image ----
\* the skip check; get_output_path creates the output directory
CheckSkip ==
    /\ pc = "start"
    /\ dir_exists' = TRUE
    /\ IF AlreadyOptimized("WEBP" \in files, "AVIF" \in files)
       THEN /\ status' = "skipped"
            /\ pc' = "done"
       ELSE /\ status' = status
            /\ pc' = "open"
    /\ UNCHANGED <<config, files, todo, results, opened, encoder_used, locals,
                   history, warned, repeatable, raised>>

\* Image.open raises on a source that cannot be decoded
OpenFails ==
    /\ pc = "open"
    /\ corrupt
    /\ opened' = TRUE
    /\ Caught("decode")
    /\ UNCHANGED <<config, dir_exists, files, encoder_used, warned, repeatable>>

\* match format_decision: case _
InvalidDecision ==
    /\ pc = "open"
    /\ ~corrupt
    /\ RequestedFormats(format_decision) = <<>>
    /\ opened' = TRUE
    /\ status' = "error"
    /\ pc' = "done"
    /\ UNCHANGED <<config, dir_exists, files, todo, results, encoder_used, locals,
                   history, warned, repeatable, raised>>

\* Image.open, then the case of format_decision: the first format gets its
\* initial quality and its optimizer call starts (the single-image program
\* always takes both formats, and makes the output directory here)
OpenImage ==
    /\ pc = "open"
    /\ ~corrupt
    /\ RequestedFormats(format_decision) # <<>>
    /\ opened' = TRUE
    /\ todo' = RequestedFormats(format_decision)
    /\ format_name' = Head(todo')
    /\ initial_quality' = SeedQuality(variant, format_name', original_size)
    /\ dir_exists' = (dir_exists \/ variant = "single")
    /\ pc' = "seed"
    /\ UNCHANGED <<config, files, status, results, encoder_used,
                   quality, resize_needed, resize_count, current_size, new_size,
                   current_img, current_mode, history, warned, repeatable,
                   raised>>

\* ---- optimize_to_target_size ----
\* quality = initial_quality ... first save and measure
Seed ==
    /\ pc = "seed"
    /\ IF ~EncoderAccepts(format_name, WorkingMode(format_name, img_mode))
       THEN \* the first save refuses the mode of the working copy
            /\ encoder_used' = TRUE
            /\ Caught("mode")
            /\ UNCHANGED <<config, dir_exists, files, opened, warned, repeatable>>
       ELSE \/ /\ quality' = initial_quality
               /\ resize_needed' = FALSE
               /\ resize_count' = 0
               /\ current_img' = Copy(img_dims)
               /\ current_mode' = WorkingMode(format_name, img_mode)
               /\ Saved(quality')
               /\ \E s \in Sizes : current_size' = s
               /\ MeasureFirst(quality', current_size')
               /\ seed_below' = (current_size' < TARGET_MIN_SIZE_KB)
               /\ pc' = "down"
               /\ UNCHANGED <<config, dir_exists, status, todo, results, opened,
                              format_name, initial_quality, new_size,
                              prev_quality, warned, repeatable, raised>>
            \/ SaveRaises

\* while current_size > MAX_SIZE_KB: false
LoopExit ==
    /\ pc = "down"
    /\ ~OverBudget(current_size)
    /\ pc' = "raise_if"
    /\ UNCHANGED <<config, dir_exists, files, status, todo, results, opened,
                   encoder_used, locals, history, warned,
                   repeatable, raised>>

\* if quality > MIN_QUALITY: lower the quality, save, measure
ReduceQuality ==
    /\ pc = "down"
    /\ OverBudget(current_size)
    /\ CanReduceQuality(quality)
    /\ \/ /\ quality' = ReducedQuality(quality, current_size)
          /\ Saved(quality')
          /\ \E s \in Answers(quality') : current_size' = s
          /\ Measure(quality', current_size')
          /\ UNCHANGED <<config, dir_exists, pc, status, todo, results, opened,
                         format_name, initial_quality, resize_needed,
                         resize_count, new_size, current_img, current_mode,
                         prev_quality, seed_below, warned, repeatable, raised>>
       \/ SaveRaises

\* variant: giving up raises instead of breaking out of the loop
GiveUp_raises ==
    /\ pc = "down"
    /\ OverBudget(current_size)
    /\ ~CanReduceQuality(quality)
    /\ ResizeExhausted(resize_count)
    /\ warned' = warned \cup {format_name}
    /\ Caught("exhausted")
    /\ UNCHANGED <<config, dir_exists, files, opened, encoder_used, repeatable>>

\* if resize_count >= max_resize_attempts: logger.warning(...); break
GiveUp ==
    /\ pc = "down"
    /\ OverBudget(current_size)
    /\ ~CanReduceQuality(quality)
    /\ ResizeExhausted(resize_count)
    /\ warned' = warned \cup {format_name}
    /\ pc' = "raise_if"
    /\ UNCHANGED <<config, dir_exists, files, status, todo, results, opened,
                   encoder_used, locals, history, repeatable,
                   raised>>

\* the resize branch: scale the working copy, reset the quality, save, measure
Resize ==
    /\ pc = "down"
    /\ OverBudget(current_size)
    /\ ~CanReduceQuality(quality)
    /\ ~ResizeExhausted(resize_count)
    /\ LET new_width == Scaled(current_img[1])
           new_height == Scaled(current_img[2])
       IN  IF new_width < 1 \/ new_height < 1
           THEN \* resize rejects an empty size
                /\ Caught("resize")
                /\ UNCHANGED <<config, dir_exists, files, opened, encoder_used,
                               warned, repeatable>>
           ELSE \/ /\ current_img' = <<new_width, new_height>>
                   /\ quality' = QualityAfterResize(quality, initial_quality)
                   /\ Saved(quality')
                   /\ \E s \in Sizes : current_size' = s
                   /\ MeasureResized(quality', current_size')
                   /\ resize_needed' = TRUE
                   /\ resize_count' = resize_count + 1
                   /\ UNCHANGED <<config, dir_exists, pc, status, todo, results,
                                  opened, format_name, initial_quality, new_size,
                                  current_mode, prev_quality, seed_below, warned,
                                  repeatable, raised>>
                \/ SaveRaises

\* if current_size < TARGET_MIN_SIZE_KB and not resize_needed
RaiseIf ==
    /\ pc = "raise_if"
    /\ pc' = IF ShouldRaise(current_size, resize_needed) THEN "up_loop" ELSE "ret"
    /\ UNCHANGED <<config, dir_exists, files, status, todo, results, opened,
                   encoder_used, locals, history, warned,
                   repeatable, raised>>

\* the raise loop's test; when it holds: quality += 5 (capped), save, measure
\* into new_size
RaiseQuality ==
    /\ pc = "up_loop"
    /\ IF RaiseLoopCond(current_size, quality)
       THEN \/ /\ prev_quality' = quality
               /\ quality' = RaisedQuality(quality)
               /\ Saved(quality')
               /\ \E s \in Answers(quality') : new_size' = s
               /\ Measure(quality', new_size')
               /\ pc' = "up_test"
               /\ UNCHANGED <<config, dir_exists, status, todo, results, opened,
                              format_name, initial_quality, resize_needed,
                              resize_count, current_size, current_img,
                              current_mode, seed_below, warned, repeatable,
                              raised>>
            \/ SaveRaises
       ELSE /\ pc' = "ret"
            /\ UNCHANGED <<config, dir_exists, files, status, todo, results,
                           opened, encoder_used, locals, history,
                           warned, repeatable, raised>>

\* if new_size > MAX_SIZE_KB: quality -= 5, save, measure, break
Revert ==
    /\ pc = "up_test"
    /\ OverBudget(new_size)
    /\ \/ /\ quality' = RevertedQuality(quality)
          /\ Saved(quality')
          /\ \E s \in Answers(quality') :
                /\ current_size' = s
                /\ repeatable' = (repeatable /\ (quality' = prev_quality => s = current_size))
          /\ Measure(quality', current_size')
          /\ pc' = "ret"
          /\ UNCHANGED <<config, dir_exists, status, todo, results, opened,
                         format_name, initial_quality, resize_needed,
                         resize_count, new_size, current_img, current_mode,
                         prev_quality, seed_below, warned, raised>>
       \/ SaveRaises

\* current_size = new_size, and back to the loop test
KeepRaised ==
    /\ pc = "up_test"
    /\ ~OverBudget(new_size)
    /\ current_size' = new_size
    /\ pc' = "up_loop"
    /\ UNCHANGED <<config, dir_exists, files, status, todo, results, opened,
                   encoder_used, format_name, initial_quality, quality,
                   resize_needed, resize_count, new_size, current_img,
                   current_mode, history, warned, repeatable, raised>>

\* return current_size, quality, resize_needed; the caller goes on with the
\* next format or returns the "success" dict
Return ==
    /\ pc = "ret"
    /\ results' = [results EXCEPT ![format_name] =
                      [size |-> current_size, quality |-> quality,
                       resized |-> resize_needed,
                       savings |-> Savings(original_size, current_size)]]
    /\ todo' = Tail(todo)
    /\ IF todo' = <<>>
       THEN /\ status' = "success"
            /\ pc' = "done"
            /\ NoLocals
       ELSE /\ status' = status
            /\ pc' = "seed"
            /\ format_name' = Head(todo')
            /\ initial_quality' = SeedQuality(variant, format_name', original_size)
            /\ quality' = Unset
            /\ resize_needed' = FALSE
            /\ resize_count' = 0
            /\ current_size' = Unset
            /\ new_size' = Unset
            /\ current_img' = <<0, 0>>
            /\ current_mode' = "none"
            /\ enc_quality' = Unset
            /\ enc_size' = Unset
            /\ measured' = {}
            /\ prev_quality' = Unset
            /\ seed_below' = FALSE
    /\ UNCHANGED <<config, dir_exists, files, opened, encoder_used, warned,
                   repeatable, raised>>

Next ==
    \/ CheckSkip
    \/ OpenFails
    \/ InvalidDecision
    \/ OpenImage
    \/ Seed
    \/ LoopExit
    \/ ReduceQuality
    \/ GiveUp
    \/ Resize
    \/ RaiseIf
    \/ RaiseQuality
    \/ Revert
    \/ KeepRaised
    \/ Return

Spec == Init /\ [][Next]_vars

\* the job runs on one thread that is never suspended for good: a step that
\* can be taken is taken
FairSpec == Spec /\ WF_vars(Next)

TypeOK ==
    /\ pc \in {"start", "open", "seed", "down", "raise_if", "up_loop", "up_test",
               "ret", "done"}
    /\ status \in {"running", "success", "skipped", "error"}
    /\ files \subseteq Formats
    /\ resize_count \in 0..max_resize_attempts
    /\ quality \in {Unset} \cup (0..100)

\* ---- the single-image program: optimizer.py, optimize_image ----
\* no skip check and no format selection: the image is opened, then WEBP and
\* AVIF are optimized in turn
SingleInit ==
    /\ NoBatch
    /\ format_decision = 3
    /\ dir_exists \in BOOLEAN
    /\ files \in SUBSET Formats
    /\ (files # {} => dir_exists)
    /\ corrupt \in BOOLEAN
    /\ original_size \in OrigSizes
    /\ \E im \in SourceImages : img_dims = im.size /\ img_mode = im.mode
    /\ deterministic = FALSE
    /\ variant = "single"
    /\ pc = "open"
    /\ status = "running"
    /\ todo = <<>>
    /\ results = [f \in Formats |-> NoResult]
    /\ opened = FALSE
    /\ encoder_used = FALSE
    /\ format_name = "none"
    /\ initial_quality = Unset
    /\ quality = Unset
    /\ resize_needed = FALSE
    /\ resize_count = 0
    /\ current_size = Unset
    /\ new_size = Unset
    /\ current_img = <<0, 0>>
    /\ current_mode = "none"
    /\ enc_quality = Unset
    /\ enc_size = Unset
    /\ measured = {}
    /\ prev_quality = Unset
    /\ seed_below = FALSE
    /\ warned = {}
    /\ repeatable = TRUE
    /\ raised = "none"

SingleNext ==
    \/ OpenFails
    \/ OpenImage
    \/ Seed
    \/ LoopExit
    \/ ReduceQuality
    \/ GiveUp
    \/ Resize
    \/ RaiseIf
    \/ RaiseQuality
    \/ Revert
    \/ KeepRaised
    \/ Return

SingleSpec == SingleInit /\ [][SingleNext]_vars

\* ---- optimize_to_target_size called on its own ----
\* the formats and initial qualities the function is called with
CallFormats == {"WEBP", "AVIF", "JPEG"}
CallQualities == {30, 34, 57, 80}

\* a caller holds an image and is about to call the function
CallInit ==
    /\ NoBatch
    /\ format_decision = 0
    /\ dir_exists = TRUE
    /\ files = {}
    /\ corrupt = FALSE
    /\ original_size = 0
    /\ img_dims \in ImageDims
    /\ img_mode \in Modes
    /\ deterministic = FALSE
    /\ variant = "none"
    /\ pc = "seed"
    /\ status = "running"
    /\ todo = <<>>
    /\ results = [f \in Formats |-> NoResult]
    /\ opened = TRUE
    /\ encoder_used = FALSE
    /\ format_name \in CallFormats
    /\ initial_quality \in CallQualities
    /\ quality = Unset
    /\ resize_needed = FALSE
    /\ resize_count = 0
    /\ current_size = Unset
    /\ new_size = Unset
    /\ current_img = <<0, 0>>
    /\ current_mode = "none"
    /\ enc_quality = Unset
    /\ enc_size = Unset
    /\ measured = {}
    /\ prev_quality = Unset
    /\ seed_below = FALSE
    /\ warned = {}
    /\ repeatable = TRUE
    /\ raised = "none"

\* return current_size, quality, resize_needed: the caller has the tuple
CallReturn ==
    /\ pc = "ret"
    /\ pc' = "done"
    /\ status' = "success"
    /\ UNCHANGED <<config, dir_exists, files, todo, results, opened,
                   encoder_used, locals, history, warned, repeatable, raised>>

CallNext ==
    \/ Seed
    \/ LoopExit
    \/ ReduceQuality
    \/ GiveUp
    \/ Resize
    \/ RaiseIf
    \/ RaiseQuality
    \/ Revert
    \/ KeepRaised
    \/ CallReturn

CallSpec == CallInit /\ [][CallNext]_vars

\* the call runs on one thread and the encoder answers every save
CallFairSpec == CallSpec /\ WF_vars(CallNext)

\* ---- optimize_to_target_size called with a deterministic encoder ----
\* the initial qualities of these calls
DetQualities == {80, 57}

DetInit ==
    /\ NoBatch
    /\ format_decision = 0
    /\ dir_exists = TRUE
    /\ files = {}
    /\ corrupt = FALSE
    /\ original_size = 0
    /\ img_dims \in ImageDims
    /\ img_mode = "RGB"
    /\ deterministic = TRUE
    /\ variant = "none"
    /\ pc = "seed"
    /\ status = "running"
    /\ todo = <<>>
    /\ results = [f \in Formats |-> NoResult]
    /\ opened = TRUE
    /\ encoder_used = FALSE
    /\ format_name = "WEBP"
    /\ initial_quality \in DetQualities
    /\ quality = Unset
    /\ resize_needed = FALSE
    /\ resize_count = 0
    /\ current_size = Unset
    /\ new_size = Unset
    /\ current_img = <<0, 0>>
    /\ current_mode = "none"
    /\ enc_quality = Unset
    /\ enc_size = Unset
    /\ measured = {}
    /\ prev_quality = Unset
    /\ seed_below = FALSE
    /\ warned = {}
    /\ repeatable = TRUE
    /\ raised = "none"

DetSpec == DetInit /\ [][CallNext]_vars

\* ---- the batch: main, process_batch and the jobs of the pool ----
\* the variables of the single job looked at step by step
job == <<dir_exists, files, corrupt, original_size, img_dims, img_mode,
         deterministic, variant, pc,
         status, todo,
         results, opened, encoder_used, locals, history, warned, repeatable,
         raised>>

\* the single job is not looked at
NoJob ==
    /\ dir_exists = FALSE
    /\ files = {}
    /\ corrupt = FALSE
    /\ original_size = 0
    /\ img_dims = <<0, 0>>
    /\ img_mode = "none"
    /\ deterministic = FALSE
    /\ variant = "none"
    /\ pc = "none"
    /\ status = "none"
    /\ todo = <<>>
    /\ results = [f \in Formats |-> NoResult]
    /\ opened = FALSE
    /\ encoder_used = FALSE
    /\ format_name = "none"
    /\ initial_quality = Unset
    /\ quality = Unset
    /\ resize_needed = FALSE
    /\ resize_count = 0
    /\ current_size = Unset
    /\ new_size = Unset
    /\ current_img = <<0, 0>>
    /\ current_mode = "none"
    /\ enc_quality = Unset
    /\ enc_size = Unset
    /\ measured = {}
    /\ prev_quality = Unset
    /\ seed_below = FALSE
    /\ warned = {}
    /\ repeatable = TRUE
    /\ raised = "none"

BatchInit ==
    /\ NoJob
    /\ format_decision \in FormatDecisions
    /\ folder \in {F \in SUBSET FolderFiles : Cardinality(F) <= MaxFiles}
    /\ out_files \in SUBSET ({f[1] : f \in folder} \X Formats)
    /\ workers_arg \in WorkerArgs
    /\ main_pc = "find"
    /\ run = 1
    /\ prev_clean = FALSE
    /\ FreshRun

\* the jobs submitted to the pool, as indexes of image_files
Jobs == DOMAIN job_pc
Stem(i) == image_files[i][1]
Running == {i \in Jobs : job_pc[i] \in {"start", "open", "optimize"}}
NoJobResult == [status |-> "none", savings |-> [f \in Formats |-> Unset]]

\* the lists find_images_in_folder can return: the files of the folder, those
\* of an earlier extension of supported_formats first
Listings(F) ==
    {l \in [1..Cardinality(F) -> F] :
        /\ \A i, j \in 1..Cardinality(F) : i # j => l[i] # l[j]
        /\ \A i, j \in 1..Cardinality(F) :
              i < j => ExtRank(l[i][2]) <= ExtRank(l[j][2])}

\* main: find_images_in_folder; return 1 when nothing was found
Find ==
    /\ main_pc = "find"
    /\ \E l \in Listings(Discovered(folder)) :
          /\ image_files' = l
          /\ IF l = <<>>
             THEN /\ exit_code' = 1
                  /\ main_pc' = "exited"
             ELSE /\ exit_code' = exit_code
                  /\ main_pc' = "batch"
    /\ UNCHANGED <<format_decision, job, folder, out_files, workers_arg, run,
                   optimal_workers, job_pc, job_todo, job_result, successful,
                   skipped, failed, details, total_savings, average_savings,
                   pbar, report_written, pre_files, encodes, opens, prev_clean>>

\* process_batch up to the submission of every file to the pool
StartBatch ==
    /\ main_pc = "batch"
    /\ optimal_workers' = PoolSize(format_decision, workers_arg)
    /\ job_pc' = [i \in DOMAIN image_files |-> "queued"]
    /\ job_todo' = [i \in DOMAIN image_files |-> <<>>]
    /\ job_result' = [i \in DOMAIN image_files |-> NoJobResult]
    /\ successful' = 0
    /\ skipped' = 0
    /\ failed' = 0
    /\ details' = <<>>
    /\ total_savings' = NoSavings
    /\ pre_files' = out_files
    /\ main_pc' = "drain"
    /\ UNCHANGED <<format_decision, job, folder, out_files, workers_arg, run,
                   image_files, average_savings, pbar, exit_code,
                   report_written, encodes, opens, prev_clean>>

\* a free worker takes the oldest queued job
JobStart(i) ==
    /\ main_pc = "drain"
    /\ job_pc[i] = "queued"
    /\ \A j \in Jobs : j < i => job_pc[j] # "queued"
    /\ Cardinality(Running) < optimal_workers
    /\ job_pc' = [job_pc EXCEPT ![i] = "start"]
    /\ UNCHANGED <<format_decision, job, folder, out_files, workers_arg, main_pc,
                   run, image_files, optimal_workers, job_todo, job_result,
                   successful, skipped, failed, details, total_savings,
                   average_savings, pbar, exit_code, report_written, pre_files,
                   encodes, opens, prev_clean>>

\* optimize_image: the skip check
JobCheckSkip(i) ==
    /\ i \in Jobs
    /\ job_pc[i] = "start"
    /\ IF AlreadyOptimized(get_output_path(image_files[i], "webp") \in out_files,
                           get_output_path(image_files[i], "avif") \in out_files)
       THEN /\ job_result' = [job_result EXCEPT ![i].status = "skipped"]
            /\ job_pc' = [job_pc EXCEPT ![i] = "returned"]
       ELSE /\ job_result' = job_result
            /\ job_pc' = [job_pc EXCEPT ![i] = "open"]
    /\ UNCHANGED <<format_decision, job, folder, out_files, workers_arg, main_pc,
                   run, image_files, optimal_workers, job_todo, successful,
                   skipped, failed, details, total_savings, average_savings,
                   pbar, exit_code, report_written, pre_files, encodes, opens,
                   prev_clean>>

\* optimize_image: Image.open, which raises on a source that cannot be decoded,
\* then the case of format_decision
JobOpen(i) ==
    /\ i \in Jobs
    /\ job_pc[i] = "open"
    /\ opens' = opens + 1
    /\ \/ /\ job_result' = [job_result EXCEPT ![i].status = "error"]
          /\ job_pc' = [job_pc EXCEPT ![i] = "returned"]
          /\ job_todo' = job_todo
       \/ /\ RequestedFormats(format_decision) = <<>>
          /\ job_result' = [job_result EXCEPT ![i].status = "error"]
          /\ job_pc' = [job_pc EXCEPT ![i] = "returned"]
          /\ job_todo' = job_todo
       \/ /\ RequestedFormats(format_decision) # <<>>
          /\ job_todo' = [job_todo EXCEPT ![i] = RequestedFormats(format_decision)]
          /\ job_pc' = [job_pc EXCEPT ![i] = "optimize"]
          /\ job_result' = job_result
    /\ UNCHANGED <<format_decision, job, folder, out_files, workers_arg, main_pc,
                   run, image_files, optimal_workers, successful, skipped,
                   failed, details, total_savings, average_savings, pbar,
                   exit_code, report_written, pre_files, encodes, prev_clean>>

\* optimize_image: one call of optimize_to_target_size and the savings of its
\* format; the call writes the output file and returns, or an encode raises
\* and the except branch returns the error dict
JobOptimize(i) ==
    /\ i \in Jobs
    /\ job_pc[i] = "optimize"
    /\ encodes' = encodes + 1
    /\ LET f == Head(job_todo[i]) IN
       \/ /\ out_files' = out_files \cup {get_output_path(image_files[i], f)}
          /\ job_todo' = [job_todo EXCEPT ![i] = Tail(@)]
          /\ job_result' = [job_result EXCEPT
                ![i].savings[f] = SavingsFor(image_files[i], f),
                ![i].status = IF Tail(job_todo[i]) = <<>>
                              THEN "success" ELSE @]
          /\ job_pc' = [job_pc EXCEPT ![i] =
                          IF Tail(job_todo[i]) = <<>> THEN "returned" ELSE @]
       \/ /\ out_files' \in {out_files,
                            out_files \cup {get_output_path(image_files[i], f)}}
          /\ job_todo' = [job_todo EXCEPT ![i] = <<>>]
          /\ job_result' = [job_result EXCEPT ![i] =
                              [NoJobResult EXCEPT !.status = "error"]]
          /\ job_pc' = [job_pc EXCEPT ![i] = "returned"]
    /\ UNCHANGED <<format_decision, job, folder, workers_arg, main_pc, run,
                   image_files, optimal_workers, successful, skipped, failed,
                   details, total_savings, average_savings, pbar, exit_code,
                   report_written, pre_files, opens, prev_clean>>

\* result.get(key, {}).get("savings", 0)
SavingsOf(result, f) ==
    IF result.savings[f] = Unset THEN 0 ELSE result.savings[f]

\* variant: the branch of both formats adds the WEBP savings only
AddedSavings_webp_only(decision, result) ==
    CASE decision = 1 -> [NoSavings EXCEPT !["WEBP"] = SavingsOf(result, "WEBP")]
      [] decision = 2 -> [NoSavings EXCEPT !["AVIF"] = SavingsOf(result, "AVIF")]
      [] OTHER -> [NoSavings EXCEPT !["WEBP"] = SavingsOf(result, "WEBP")]

\* the savings one success adds to total_savings
AddedSavings(decision, result) ==
    CASE decision = 1 -> [NoSavings EXCEPT !["WEBP"] = SavingsOf(result, "WEBP")]
      [] decision = 2 -> [NoSavings EXCEPT !["AVIF"] = SavingsOf(result, "AVIF")]
      [] OTHER -> [f \in Formats |-> SavingsOf(result, f)]

\* the body of the as_completed loop, run by the main thread for one finished
\* future
Collect(i) ==
    /\ main_pc = "drain"
    /\ i \in Jobs
    /\ job_pc[i] = "returned"
    /\ job_pc' = [job_pc EXCEPT ![i] = "collected"]
    /\ details' = Append(details, i)
    /\ LET result == job_result[i] IN
       IF result.status = "success"
       THEN /\ successful' = successful + 1
            /\ total_savings' =
                  [f \in Formats |->
                      total_savings[f] + AddedSavings(format_decision, result)[f]]
            /\ UNCHANGED <<skipped, failed>>
       ELSE IF result.status = "skipped"
       THEN /\ skipped' = skipped + 1
            /\ UNCHANGED <<successful, failed, total_savings>>
       ELSE /\ failed' = failed + 1
            /\ UNCHANGED <<successful, skipped, total_savings>>
    /\ pbar' = PbarUpdate(pbar)
    /\ UNCHANGED <<format_decision, job, folder, out_files, workers_arg, main_pc,
                   run, image_files, optimal_workers, job_todo, job_result,
                   average_savings, exit_code, report_written, pre_files,
                   encodes, opens, prev_clean>>

\* variant: the division is done whatever the number of successes
AverageSavings_unguarded(totals, count) ==
    [f \in Formats |-> <<totals[f], count>>]

\* results["average_savings"]: total / successful, kept as a fraction
AverageSavings(totals, count) ==
    IF count > 0
    THEN [f \in Formats |-> <<totals[f], count>>]
    ELSE NoAverage

\* every future was yielded: the averages, and process_batch returns
FinishBatch ==
    /\ main_pc = "drain"
    /\ \A i \in Jobs : job_pc[i] = "collected"
    /\ average_savings' = AverageSavings(total_savings, successful)
    /\ main_pc' = "report"
    /\ UNCHANGED <<format_decision, job, folder, out_files, workers_arg, run,
                   image_files, optimal_workers, job_pc, job_todo, job_result,
                   successful, skipped, failed, details, total_savings, pbar,
                   exit_code, report_written, pre_files, encodes, opens,
                   prev_clean>>

\* variant: the two exit codes swapped
ExitCode_swapped(failed_count) == IF failed_count = 0 THEN 1 ELSE 0

\* return 0 if results["failed"] == 0 else 1
ExitCode(failed_count) == IF failed_count = 0 THEN 0 ELSE 1

\* main: the summary, the report (a failure to write it is logged) and the
\* exit code
Report ==
    /\ main_pc = "report"
    /\ report_written' \in BOOLEAN
    /\ exit_code' = ExitCode(failed)
    /\ main_pc' = "exited"
    /\ UNCHANGED <<format_decision, job, folder, out_files, workers_arg, run,
                   image_files, optimal_workers, job_pc, job_todo, job_result,
                   successful, skipped, failed, details, total_savings,
                   average_savings, pbar, pre_files, encodes, opens, prev_clean>>

\* the program is run again over the same folder, with the same answers
Rerun ==
    /\ main_pc = "exited"
    /\ run < MaxRuns
    /\ run' = run + 1
    /\ prev_clean' = (image_files # <<>> /\ successful = Len(image_files))
    /\ main_pc' = "find"
    /\ image_files' = <<>>
    /\ optimal_workers' = 0
    /\ job_pc' = <<>>
    /\ job_todo' = <<>>
    /\ job_result' = <<>>
    /\ successful' = 0
    /\ skipped' = 0
    /\ failed' = 0
    /\ details' = <<>>
    /\ total_savings' = NoSavings
    /\ average_savings' = NoAverage
    /\ pbar' = 0
    /\ exit_code' = Unset
    /\ report_written' = FALSE
    /\ pre_files' = {}
    /\ encodes' = 0
    /\ opens' = 0
    /\ UNCHANGED <<format_decision, job, folder, out_files, workers_arg>>

BatchNext ==
    \/ Find
    \/ StartBatch
    \/ \E i \in Jobs : JobStart(i)
    \/ \E i \in Jobs : JobCheckSkip(i)
    \/ \E i \in Jobs : JobOpen(i)
    \/ \E i \in Jobs : JobOptimize(i)
    \/ \E i \in Jobs : Collect(i)
    \/ FinishBatch
    \/ Report
    \/ Rerun

BatchSpec == BatchInit /\ [][BatchNext]_vars

\* ---- discovery on its own: main up to the end of find_images_in_folder ----
DiscoveryInit ==
    /\ NoJob
    /\ format_decision \in FormatDecisions
    /\ folder \in {F \in SUBSET FolderEntries : Cardinality(F) <= MaxEntries}
    /\ out_files = {}
    /\ workers_arg \in WorkerArgs
    /\ main_pc = "find"
    /\ run = 1
    /\ prev_clean = FALSE
    /\ FreshRun

DiscoveryNext == Find

DiscoverySpec == DiscoveryInit /\ [][DiscoveryNext]_vars

\* ---- properties ----
InCall == format_name \in Formats
Returned(f) == results[f] # NoResult

\* C1: every quality handed to an encode (seed, downward, after a resize,
\* upward, revert) lies in [30, 98], and so does every returned quality.
C1_QualityInRange ==
    /\ (enc_quality # Unset => enc_quality \in 30..98)
    /\ (quality # Unset => quality \in 30..98)
    /\ \A f \in Formats : Returned(f) => results[f].quality \in 30..98

\* an encode at the cap was reverted, and the call returned
C1_Witness ==
    /\ status = "success"
    /\ \E f \in Formats : results[f].quality = 93

\* C2: the resize counter never exceeds 5, and the resize flag is set exactly
\* when the counter is at least 1.
C2_ResizeCountBounded ==
    /\ resize_count <= 5
    /\ (resize_needed <=> resize_count >= 1)

C2_Witness == resize_count = 5 /\ resize_needed /\ pc = "down"

\* C3: a resize step (the counter goes up by one) is only taken from a state
\* whose quality is MIN_QUALITY and whose measured size is above MAX_SIZE_KB.
C3_ResizeOnlyAtFloor ==
    [][resize_count' = resize_count + 1
         => quality = 30 /\ current_size > 100]_vars

\* a second resize was taken, after the quality had been reset
C3_Witness == resize_count = 2 /\ pc = "down" /\ quality = initial_quality

\* C4: with 5 resizes done, the quality on the floor and the size over the
\* ceiling, the call stops, logs the deviation and returns what it has; no
\* exception is raised and the give-up does not make the job an error.
C4_GaveUpState(f) ==
    IF format_name = f
    THEN /\ pc \in {"raise_if", "ret"}
         /\ status = "running"
         /\ current_size > 100 /\ quality = 30
         /\ resize_needed /\ resize_count = 5
    ELSE \/ /\ status \in {"running", "success"}
            /\ results[f].size > 100
            /\ results[f].quality = 30
            /\ results[f].resized
         \/ /\ status = "error"
            /\ raised \in {"codec", "resize"}
            /\ format_decision = 3 /\ f = "WEBP"

C4_BestEffortReturned ==
    /\ [](\A f \in warned : C4_GaveUpState(f))
    /\ [][(pc = "down" /\ resize_count = 5 /\ quality = 30 /\ current_size > 100)
            => /\ pc' = "raise_if"
               /\ format_name \in warned'
               /\ raised' = "none" /\ status' = "running"
               /\ current_size' = current_size /\ quality' = quality]_vars

\* a job ended as a success with a format that gave up
C4_Witness ==
    /\ status = "success"
    /\ \E f \in warned : results[f].size > 100

\* C5: a step that raises the quality without a resize, and every state of
\* the raise loop's body, has no resize behind it and a current size below
\* TARGET_MIN_SIZE_KB; so after a resize the quality only goes down until the
\* next resize.
C5_RaiseOnlyUnresized ==
    [][(\/ pc' = "up_test"
        \/ pc = "up_test"
        \/ (InCall /\ quality # Unset /\ format_name' = format_name
              /\ resize_count' = resize_count /\ quality' > quality))
         => ~resize_needed /\ resize_count = 0 /\ current_size < 30]_vars

\* the quality went down first and is raised afterwards
C5_Witness == pc = "up_test" /\ prev_quality < initial_quality

\* C6 (as claimed): after an overshooting raise the call returns the quality
\* that was in force before the raise, encoded last.
C6_RevertRestoresPrevious ==
    (pc = "ret" /\ new_size # Unset /\ new_size > 100)
        => quality = prev_quality /\ enc_quality = prev_quality

C8_InitialQualityPolicy ==
    InCall =>
        /\ initial_quality =
              (IF format_name = "AVIF"
               THEN (IF original_size > 500 THEN 60 ELSE 65)
               ELSE (IF original_size > 500 THEN 70 ELSE 80))
        /\ initial_quality >= 30
        /\ initial_quality <= 80

\* an AVIF call on a source of exactly 500 KB is seeded with 65
C8_Witness ==
    /\ pc = "down" /\ format_name = "AVIF"
    /\ original_size = 500 /\ initial_quality = 65

\* C9 (as claimed): a source of exactly 500 KB routed to WEBP is first encoded
\* at quality 70, and its call returns a quality of at least 30.
C9_ScenarioA ==
    /\ (format_name = "WEBP" /\ original_size = 500 /\ pc = "down"
          => initial_quality = 70)
    /\ (Returned("WEBP") => results["WEBP"].quality >= 30)

\* C9 (amended): the first encode of a WEBP call is at quality 80 for a source
\* of exactly 500 KB and at 70 only for a source above 500 KB; the call ends,
\* and a returned quality is at least 30.
C9_ScenarioAAmended ==
    /\ [][(pc = "seed" /\ pc' = "down" /\ format_name = "WEBP")
            => enc_quality' = (IF original_size > 500 THEN 70 ELSE 80)]_vars
    /\ [](Returned("WEBP") => results["WEBP"].quality >= 30)
    /\ ((format_name = "WEBP") ~> (format_name # "WEBP"))

\* a WEBP call on a source of exactly 500 KB returned
C9_Witness ==
    /\ original_size = 500 /\ format_decision = 1 /\ status = "success"
    /\ results["WEBP"].quality >= 30

\* C10 (as claimed): a job whose requested outputs all exist goes no further
\* than the skip check: it is skipped, the image is not opened and nothing is
\* encoded.
C10_SkipWhenRequestedPresent ==
    LET requested == {RequestedFormats(format_decision)[i] :
                         i \in DOMAIN RequestedFormats(format_decision)}
    IN  (pc = "open" \/ status = "skipped") /\ requested # {}
          /\ requested \subseteq files
            => status = "skipped" /\ ~opened /\ ~encoder_used

C21_SavingsRecomputable ==
    /\ [](status = "success" =>
            \A f \in Formats :
                IF f \in {RequestedFormats(format_decision)[k] :
                             k \in DOMAIN RequestedFormats(format_decision)}
                THEN /\ Returned(f)
                     /\ results[f].savings[1] = (original_size - results[f].size) * 100
                     /\ results[f].savings[2] = original_size
                ELSE ~Returned(f))
    /\ [](pc = "ret" => current_size = enc_size)
    /\ [][(pc = "ret" /\ pc' # "ret")
            => results'[format_name].size = enc_size]_vars

\* both formats of a 500 KB source: WEBP returned on the ceiling at its seed
\* quality, AVIF under the target minimum
C21_Witness ==
    /\ status = "success" /\ format_decision = 3 /\ original_size = 500
    /\ results["WEBP"].savings = <<40000, 500>> /\ results["WEBP"].quality = 80
    /\ results["AVIF"].size = 29

\* C24: no step changes the dimensions or the mode of the caller's image, and
\* every call starts on a working copy of the original dimensions and mode
\* with no resize behind it, the second format's call included.
C24_CallerImageUntouched ==
    /\ [][img_dims' = img_dims /\ img_mode' = img_mode]_vars
    /\ [][(pc = "seed" /\ pc' = "down")
            => /\ current_img' = img_dims /\ current_mode' = img_mode
               /\ resize_count' = 0 /\ ~resize_needed']_vars

\* the WEBP call was resized, the AVIF call starts from the original
C24_Witness ==
    /\ format_name = "AVIF" /\ pc = "down" /\ results["WEBP"].resized
    /\ resize_count = 0 /\ current_img = img_dims /\ img_dims = <<1000, 800>>

\* k truncating steps of 0.8, each on the result of the step before
RECURSIVE C25_Steps(_, _)
C25_Steps(d, k) == IF k = 0 THEN d ELSE (C25_Steps(d, k - 1) * 8) \div 10

\* C25: the working dimensions are the original ones after no resize, and
\* after k resizes the original ones put k times through the truncating
\* scaling by 0.8, each step applied to the result of the previous one.
C25_ResizeCompounds ==
    (InCall /\ quality # Unset) =>
        current_img = <<C25_Steps(img_dims[1], resize_count),
                        C25_Steps(img_dims[2], resize_count)>>

\* 800 pixels after 5 steps are 261, where 800 * 0.8^5 truncates to 262
C25_Witness == resize_count = 5 /\ current_img = <<327, 261>>

\* C26: while the size is above MAX_SIZE_KB and the quality above
\* MIN_QUALITY, a step lowers the quality by 10 if the last size is above
\* 200 and by 5 otherwise, not below 30, encodes at that quality and leaves
\* the dimensions alone; a size of at most MAX_SIZE_KB ends the phase with no
\* further encode.
C26_DownwardPhase ==
    /\ [][(pc = "down" /\ pc' = "down" /\ current_size > 100 /\ quality > 30)
            => /\ quality' = (IF current_size > 200
                              THEN (IF quality - 10 < 30 THEN 30 ELSE quality - 10)
                              ELSE (IF quality - 5 < 30 THEN 30 ELSE quality - 5))
               /\ enc_quality' = quality'
               /\ current_img' = current_img
               /\ resize_count' = resize_count]_vars
    /\ [][(pc = "down" /\ current_size <= 100)
            => /\ pc' = "raise_if"
               /\ quality' = quality /\ enc_quality' = enc_quality
               /\ current_size' = current_size]_vars

\* from 65 the quality came down to the floor by 10, 10, 10 and a clamped
\* step, and the size is on the ceiling
C26_Witness ==
    /\ pc = "raise_if" /\ initial_quality = 65 /\ quality = 30
    /\ resize_count = 0 /\ current_size = 100

\* C27: a resize step adds exactly one to the counter, changes the
\* dimensions, sets the quality to the initial quality of the call and
\* encodes at it, and leaves the call in the downward loop.
C27_ResizeResetsQuality ==
    [][(pc = "down" /\ resize_count' > resize_count)
         => /\ resize_count' = resize_count + 1
            /\ quality' = initial_quality
            /\ enc_quality' = initial_quality
            /\ initial_quality' = initial_quality
            /\ current_img' # current_img
            /\ pc' = "down"]_vars

\* a call seeded at 60: after the resize the quality is 60, not the floor it
\* was on and not the baseline 80
C27_Witness ==
    /\ pc = "down" /\ resize_count = 1 /\ initial_quality = 60
    /\ quality = 60 /\ enc_quality = 60

\* C28 (as claimed): an encode to a format without alpha support is never
\* handed a working copy with an alpha band.
C28_AlphaFlattened ==
    /\ raised # "mode"
    /\ (enc_quality # Unset /\ format_name = "JPEG"
          => current_mode \notin {"RGBA", "LA"})

\* C30: whatever sizes the encoder returns and whatever the initial quality,
\* the call ends; the counter of resizes stays at 5 or less, between two
\* resizes every step of the downward loop lowers the quality, and every
\* step of the upward loop raises it, to 98 at most.
C30_Terminates ==
    /\ <>(pc = "done")
    /\ [](resize_count <= 5)
    /\ [][(pc = "down" /\ pc' = "down" /\ resize_count' = resize_count)
            => quality' < quality]_vars
    /\ [][(pc = "up_loop" /\ pc' = "up_test")
            => quality' > quality /\ quality' <= 98]_vars

\* a call seeded at 34 returned after 5 resizes
C30_Witness ==
    /\ pc = "done" /\ status = "success" /\ initial_quality = 34
    /\ resize_count = 5 /\ quality = 30

\* ---- properties of the batch ----
Requested == {RequestedFormats(format_decision)[k] :
                 k \in DOMAIN RequestedFormats(format_decision)}
Finished(i) == job_pc[i] \in {"returned", "collected"}
StatusOf(i) == job_result[i].status
WithStatus(st) == {i \in Jobs : StatusOf(i) = st}
Collected == {details[k] : k \in DOMAIN details}
BatchOver == main_pc \in {"report", "exited"} /\ image_files # <<>>

RECURSIVE SumOver(_, _)
SumOver(S, f) ==
    IF S = {} THEN 0
    ELSE LET i == CHOOSE x \in S : TRUE
         IN  (IF f \in Requested THEN SavingsFor(image_files[i], f) ELSE 0)
               + SumOver(S \ {i}, f)

\* C11 (as claimed): a run that follows a run in which every job succeeded
\* encodes nothing and ends with every file skipped and no success.
C11_SecondRunSkipsAll ==
    (run >= 2 /\ prev_clean) =>
        /\ encodes = 0
        /\ (main_pc = "exited"
              => skipped = Len(image_files) /\ successful = 0)

\* C12 (as claimed): when the batch is over, the skipped count is the number
\* of files whose requested outputs were all there before the run, and every
\* other file is a success or a failure.
C12_ScenarioB ==
    (BatchOver /\ Requested # {}) =>
        LET present == {i \in Jobs : \A f \in Requested : <<Stem(i), f>> \in pre_files}
        IN  /\ skipped = Cardinality(present)
            /\ successful + failed = Len(image_files) - Cardinality(present)
            /\ \A i \in Jobs \ present : StatusOf(i) \in {"success", "error"}

\* C13 (as claimed): a job that does not fail has the status it would have
\* without the failing jobs: when every other job of the batch failed, it is
\* skipped exactly if its own outputs were there before the run, and a
\* success otherwise.
C13_Isolation ==
    \A i \in Jobs :
        (/\ Finished(i) /\ StatusOf(i) # "error"
         /\ \A j \in Jobs \ {i} : Finished(j) /\ StatusOf(j) = "error")
          => (StatusOf(i) = "skipped"
                <=> AlreadyOptimized(<<Stem(i), "WEBP">> \in pre_files,
                                     <<Stem(i), "AVIF">> \in pre_files))

\* C15 (as claimed): the pool has min(--workers, format cap) threads, and no
\* more jobs than that run at the same time.
C15_WorkersArgHonoured ==
    main_pc = "drain" =>
        LET cap == get_optimal_workers(PoolFormat(format_decision))
        IN  /\ optimal_workers = Min(workers_arg, cap)
            /\ Cardinality(Running) <= Min(workers_arg, cap)

\* C16 (as claimed): the pool's cap is MAX_WORKERS halved (2) when AVIF is
\* among the requested formats, and MAX_WORKERS (4) for WEBP alone.
C16_CapHalvedWithAvif ==
    (main_pc = "drain" /\ Requested # {}) =>
        optimal_workers = (IF "AVIF" \in Requested THEN 2 ELSE 4)

\* C17: main returns 0 exactly when no job of the batch failed, skipped jobs
\* and a report that could not be written notwithstanding; it returns 1 when
\* a job failed, and 1 with no job started when no image was found.
C17_ExitCode ==
    /\ (main_pc # "exited" => exit_code = Unset)
    /\ (main_pc = "exited" /\ image_files = <<>>
          => exit_code = 1 /\ Jobs = {} /\ opens = 0 /\ encodes = 0)
    /\ (main_pc = "exited" /\ image_files # <<>>
          => /\ exit_code \in {0, 1}
             /\ (exit_code = 0 <=> WithStatus("error") = {})
             /\ \A i \in Jobs : job_pc[i] = "collected")

\* a batch with a skipped job and no failure exits with 0 although the report
\* was not written
C17_Witness ==
    /\ main_pc = "exited" /\ exit_code = 0 /\ ~report_written
    /\ WithStatus("skipped") # {} /\ WithStatus("success") # {}

\* C18 (as claimed): with a format selection other than 1, 2 or 3 no job is
\* submitted, no image is opened, no job result is recorded and the exit
\* code is not 0.
C18_InvalidSelectionAborts ==
    format_decision \notin {1, 2, 3} =>
        /\ Jobs = {}
        /\ opens = 0
        /\ details = <<>>
        /\ (main_pc = "exited" => exit_code # 0)

C20_AverageSavings ==
    BatchOver =>
        LET n == Cardinality(WithStatus("success"))
        IN  \A f \in Formats :
              /\ average_savings[f][2] # 0
              /\ IF n = 0
                 THEN average_savings[f][1] = 0
                 ELSE average_savings[f] = <<SumOver(WithStatus("success"), f), n>>

\* two jobs succeeded, and the averages are sums divided by 2
C20_Witness ==
    /\ main_pc = "exited" /\ successful = 2
    /\ \A f \in Requested : average_savings[f][2] = 2 /\ average_savings[f][1] # 0

\* C22 (as claimed): the list discovery returns holds, once each, the files
\* directly in the folder whose extension is jpg, jpeg or png whatever the
\* case of its letters, and nothing else.
C22_DiscoveryCaseInsensitive ==
    main_pc \in {"batch", "exited"} =>
        /\ {image_files[k] : k \in DOMAIN image_files}
              = {e \in folder : /\ e \notin Nested
                                /\ Lower(e[2]) \in {"jpg", "jpeg", "png"}}
        /\ \A k, l \in DOMAIN image_files :
              k # l => image_files[k] # image_files[l]

\* C23 (as claimed): no two jobs that run at the same time have an output
\* file in common.
C23_NoSharedOutput ==
    \A i, j \in Running :
        i # j => \A f, g \in Formats :
                    get_output_path(image_files[i], f)
                        # get_output_path(image_files[j], g)

\* C29: from one iteration of the collection loop to the next, the three
\* counters add up to the number of recorded details and to the count of the
\* progress bar; within a run that count never goes down and goes up by one
\* exactly when a finished job is collected; when process_batch has returned
\* it is the number of submitted files, each with exactly one detail.
C29_CountsAgree ==
    /\ [](/\ successful + skipped + failed = Len(details)
          /\ Len(details) = pbar)
    /\ [][run' = run =>
            \/ pbar' = pbar /\ details' = details
            \/ /\ pbar' = pbar + 1
               /\ \E i \in Jobs : /\ job_pc[i] = "returned"
                                  /\ job_pc'[i] = "collected"
                                  /\ details' = Append(details, i)]_vars
    /\ [](main_pc = "report" =>
            /\ pbar = Len(image_files)
            /\ \A i \in DOMAIN image_files :
                  Cardinality({k \in DOMAIN details : details[k] = i}) = 1)

\* process_batch returned with one job of each of two statuses behind it
C29_Witness ==
    /\ main_pc = "report" /\ pbar = 2
    /\ skipped = 1 /\ failed = 1 /\ details = <<2, 1>>

\* C31 (as claimed): with a deterministic encoder a call returns a size above
\* MAX_SIZE_KB only with 5 resizes done, the resize flag set and the quality
\* on MIN_QUALITY; a call that went through the upward phase returns a size
\* of at most MAX_SIZE_KB.
C31_OverBudgetOnlyExhausted ==
    (deterministic /\ pc = "ret" /\ current_size > 100)
        => /\ resize_count = 5 /\ resize_needed /\ quality = 30

\* C32 (as claimed): a resize never asks for a width or a height below 1:
\* wherever the resize branch is about to be taken, 0.8 times the working
\* width and height truncate to at least 1, and no resize is refused.
C32_ResizeNeverEmpty ==
    /\ raised # "resize"
    /\ (pc = "down" /\ current_size > 100 /\ quality = 30 /\ resize_count < 5)
          => /\ (current_img[1] * 8) \div 10 >= 1
             /\ (current_img[2] * 8) \div 10 >= 1

\* C33 (as claimed): the single-image program seeds each format's call with
\* the policy value, as the batch program does: 60 or 65 for AVIF, 70 or 80
\* for WEBP, by the size of the source.
C33_SingleSeedsAsBatch ==
    (variant = "single" /\ InCall) =>
        initial_quality =
            (IF format_name = "AVIF"
             THEN (IF original_size > 500 THEN 60 ELSE 65)
             ELSE (IF original_size > 500 THEN 70 ELSE 80))

====
